---- MODULE Spec2Model ----
(***************************************************************************)
(* Model of civitai_bulk_uploader.py: the dedup ledger (init_db,           *)
(* already_uploaded, mark_uploaded), discovery and batching                *)
(* (discover_images, group_batches), the per-post sequence of              *)
(* upload_one_post, and the run coordinator main_async.                    *)
(*                                                                         *)
(* Names of path components are small naturals whose order stands for the  *)
(* string order of the names; a path is the tuple of its parts below the   *)
(* root directory.  File contents are small naturals.                      *)
(***************************************************************************)
EXTENDS Integers, Sequences, FiniteSets, TLC

\* ---------------------------------------------------------------- bounds
NumFiles    == 2      \* image files in the directory tree
NumContents == 2      \* distinct byte contents a file may hold
MaxRuns     == 2      \* process runs over the same tree and ledger
MaxInputs   == 2      \* file inputs the editor page may expose
MaxPostSize == 2      \* largest --post-size
MaxDirFiles == 5      \* image files in the largest directory given to group_batches

\* ------------------------------------------------------ program constants
NavAttempts == 3      \* stop_after_attempt(3) on open_post_editor

ALLOWED_EXT == {".png", ".jpg", ".jpeg", ".webp"}

VARIABLES
  tree,        \* the directory tree: a set of entries [path, is_file, suffix, bytes]
  ledger,      \* rows of table uploads, in insertion order
  storage,     \* storage_state.json exists
  clock,       \* number of the current run; CURRENT_TIMESTAMP of its inserts
  pc,          \* position of main_async
  exit_code,   \* exit status of the process, -1 while running
  args,        \* parsed command line
  browser,     \* the Chromium launched by main_async is running
  conn,        \* main_async's conn is an open connection (not None)
  files,       \* main_async's files
  batches,     \* main_async's batches
  idx,         \* index in batches of the current batch (1-based)
  success_total,
  att,         \* the locals of the running upload_one_post
  ledgerAtStart, \* history: ledger when the run began
  ledgerBefore,  \* history: ledger when the current attempt began
  confirmed,     \* history: paths of the batches that reached Confirmed in this run
  runPages,      \* history: pages opened by new_page in this run
  prevConfirmed, \* history: the previous run had dedupe on and confirmed every batch
  lastMark       \* history: the arguments of the last mark_uploaded made on its own

vars == <<tree, ledger, storage, clock, pc, exit_code, args, browser, conn, files,
          batches, idx, success_total, att, ledgerAtStart, ledgerBefore,
          confirmed, runPages, prevConfirmed, lastMark>>

persist == <<tree, ledger, storage, clock>>
locals  == <<args, browser, conn, files, batches, idx, success_total>>

\* ------------------------------------------------------------ the tree
Contents == 1..NumContents

\* Odd-numbered images lie in the root, even-numbered ones in a
\* subdirectory of their own, so that the root's files are not contiguous
\* in sorted order.
PathOf(i) == IF i % 2 = 1 THEN <<i>> ELSE <<i, 1>>

SuffixOf(i) == IF i % 2 = 1 THEN ".png" ELSE ".JPG"

ImagePaths == {PathOf(i) : i \in 1..NumFiles}

\* Entries that are never images: the subdirectories (named like images)
\* and a text file.
OtherEntries ==
  {[path |-> <<i>>, is_file |-> FALSE, suffix |-> ".png", bytes |-> 0] :
      i \in {j \in 1..NumFiles : j % 2 = 0}}
  \cup {[path |-> <<0>>, is_file |-> TRUE, suffix |-> ".txt", bytes |-> 1]}

\* Contents are labels without meaning, so the contents of the images are
\* numbered in order of first occurrence.
ContentMaps ==
  {c \in [1..NumFiles -> Contents] :
     /\ c[1] = 1
     /\ \A i \in 2..NumFiles : \E j \in 1..(i - 1) : c[i] <= c[j] + 1}

\* The directory holds NumFiles images, or none at all.
Trees ==
  {{[path |-> PathOf(i), is_file |-> TRUE, suffix |-> SuffixOf(i), bytes |-> c[i]] :
      i \in 1..NumFiles} \cup OtherEntries : c \in ContentMaps}
  \cup {OtherEntries}

\* ------------------------------------------------------------ helpers
Min(a, b) == IF a < b THEN a ELSE b

\* str.lower() on the suffixes that occur
Lower(s) ==
  CASE s = ".JPG" -> ".jpg"
    [] s = ".PNG" -> ".png"
    [] OTHER -> s

\* Path.__lt__: comparison of the tuples of parts
RECURSIVE PathLess(_, _)
PathLess(p, q) ==
  IF p = <<>> THEN q # <<>>
  ELSE IF q = <<>> THEN FALSE
  ELSE IF Head(p) # Head(q) THEN Head(p) < Head(q)
  ELSE PathLess(Tail(p), Tail(q))

\* list.sort() of a set of paths
RECURSIVE SortPaths(_)
SortPaths(S) ==
  IF S = {} THEN <<>>
  ELSE LET m == CHOOSE p \in S : \A q \in S \ {p} : PathLess(p, q)
       IN <<m>> \o SortPaths(S \ {m})

\* Path.parent
Parent(p) == SubSeq(p, 1, Len(p) - 1)

\* hashlib.sha256(...).hexdigest(): one digest per content
HexDigest(b) == <<"sha256", b>>

sha256_file(t, p) == HexDigest((CHOOSE e \in t : e.path = p).bytes)

discover_images(t) ==
  SortPaths({e.path : e \in {x \in t : x.is_file /\ Lower(x.suffix) \in ALLOWED_EXT}})

\* ------------------------------------------------------------ the ledger
already_uploaded(led, digest) ==
  \E k \in 1..Len(led) : led[k].sha256 = digest

\* mutant of mark_uploaded: INSERT OR REPLACE, the old row gives way to a new one
mark_uploaded_Replace(led, digest, path, now) ==
  Append(SelectSeq(led, LAMBDA r : r.sha256 # digest),
         [id |-> Len(led) + 1, sha256 |-> digest, path |-> path, posted_at |-> now])

\* INSERT OR IGNORE with sha256 UNIQUE and id AUTOINCREMENT
mark_uploaded(led, digest, path, now) ==
  IF \E k \in 1..Len(led) : led[k].sha256 = digest
  THEN led
  ELSE Append(led, [id |-> Len(led) + 1, sha256 |-> digest, path |-> path,
                    posted_at |-> now])

\* mutant of MarkBatch: only the first file of the batch is recorded
MarkBatch_FirstOnly(led, t, batch, now) ==
  IF batch = <<>> THEN led
  ELSE mark_uploaded(led, sha256_file(t, Head(batch)), Head(batch), now)

\* for f in batch: mark_uploaded(conn, sha256_file(f), f)
RECURSIVE MarkBatch(_, _, _, _)
MarkBatch(led, t, batch, now) ==
  IF batch = <<>> THEN led
  ELSE MarkBatch(mark_uploaded(led, sha256_file(t, Head(batch)), Head(batch), now),
                 t, Tail(batch), now)

\* ------------------------------------------------------------ batching
\* mutant of Chunks: the last, shorter chunk is left out
Chunks_DropsTail(lst, post_size) ==
  [k \in 1..(Len(lst) \div post_size) |->
      SubSeq(lst, (k - 1) * post_size + 1, k * post_size)]

\* files[i:i + post_size] for i in range(0, len(files), post_size)
Chunks(lst, post_size) ==
  [k \in 1..((Len(lst) + post_size - 1) \div post_size) |->
      SubSeq(lst, (k - 1) * post_size + 1, Min(k * post_size, Len(lst)))]

\* keys of by_dir in insertion order
RECURSIVE DirOrder(_, _)
DirOrder(lst, seen) ==
  IF lst = <<>> THEN seen
  ELSE IF \E k \in 1..Len(seen) : seen[k] = Parent(Head(lst))
       THEN DirOrder(Tail(lst), seen)
       ELSE DirOrder(Tail(lst), Append(seen, Parent(Head(lst))))

InDir(lst, d) == SelectSeq(lst, LAMBDA f : Parent(f) = d)

RECURSIVE FolderGroups(_, _, _)
FolderGroups(dirs, lst, post_size) ==
  IF dirs = <<>> THEN <<>>
  ELSE Chunks(InDir(lst, Head(dirs)), post_size)
       \o FolderGroups(Tail(dirs), lst, post_size)

\* mutant of group_batches: --group-by is not looked at
group_batches_AlwaysFlat(lst, group_by, post_size) == Chunks(lst, post_size)

group_batches(lst, group_by, post_size) ==
  IF group_by = "folder"
  THEN FolderGroups(DirOrder(lst, <<>>), lst, post_size)
  ELSE Chunks(lst, post_size)

\* ------------------------------------------------------------ the run
ArgSets ==
  [login : BOOLEAN, dir : {"none", "missing", "ok"}, dry_run : BOOLEAN,
   skip_hashes : BOOLEAN, group_by : {"folder", "flat"},
   post_size : 1..MaxPostSize, tags : BOOLEAN]

NoArgs ==
  [login |-> FALSE, dir |-> "none", dry_run |-> FALSE, skip_hashes |-> FALSE,
   group_by |-> "folder", post_size |-> 1, tags |-> FALSE]

\* the locals of upload_one_post before it is called
NoAttempt ==
  [apc |-> "none", images |-> <<>>, page |-> FALSE, navTries |-> 0, title_ok |-> FALSE,
   titleFills |-> 0, tags |-> "none", count |-> -1, tried |-> 0,
   uploaded_ok |-> FALSE, accepted |-> 0, refused |-> FALSE, paused |-> FALSE, clickTries |-> 0,
   clicks |-> 0, urlWaits |-> 0, firstMatch |-> "none", success |-> FALSE,
   result |-> "none"]

\* no mark_uploaded was made on its own
NoMark == [digest |-> <<>>, path |-> <<>>, at |-> 0, present |-> FALSE]

Init ==
  /\ tree \in Trees
  /\ ledger = <<>>
  /\ storage \in BOOLEAN
  /\ clock = 1
  /\ pc = "start"
  /\ exit_code = -1
  /\ args = NoArgs
  /\ browser = FALSE
  /\ conn = FALSE
  /\ files = <<>>
  /\ batches = <<>>
  /\ idx = 0
  /\ success_total = 0
  /\ att = NoAttempt
  /\ ledgerAtStart = <<>>
  /\ ledgerBefore = <<>>
  /\ confirmed = {}
  /\ runPages = 0
  /\ prevConfirmed = FALSE
  /\ lastMark = NoMark

\* sys.exit(code) or return from main_async, after browser.close()
Exit(code) ==
  /\ pc' = "exited"
  /\ exit_code' = code
  /\ browser' = FALSE

\* an exception leaves main_async: the process ends with a traceback
Abort ==
  /\ pc' = "aborted"
  /\ exit_code' = 1
  /\ browser' = FALSE

\* parse_args and chromium.launch
ParseArgs ==
  /\ pc = "start"
  /\ args' \in ArgSets
  /\ browser' = TRUE
  /\ pc' = "launched"
  /\ UNCHANGED <<persist, exit_code, conn, files, batches, idx, success_total, att,
                 ledgerAtStart, ledgerBefore, confirmed, runPages, prevConfirmed, lastMark>>

\* --login: do_login saves the session and main_async returns
DoLogin ==
  /\ pc = "launched"
  /\ args.login
  /\ storage' = TRUE
  /\ Exit(0)
  /\ UNCHANGED <<tree, ledger, clock, args, conn, files, batches, idx,
                 success_total, att, ledgerAtStart, ledgerBefore, confirmed,
                 runPages, prevConfirmed, lastMark>>

\* --dir missing, or naming no existing directory
RequireDir ==
  /\ pc = "launched"
  /\ ~args.login
  /\ IF args.dir = "ok"
     THEN pc' = "discover" /\ UNCHANGED <<exit_code, browser>>
     ELSE Exit(2)
  /\ UNCHANGED <<persist, args, conn, files, batches, idx, success_total, att,
                 ledgerAtStart, ledgerBefore, confirmed, runPages, prevConfirmed, lastMark>>

Discover ==
  /\ pc = "discover"
  /\ files' = discover_images(tree)
  /\ pc' = "dedupe"
  /\ UNCHANGED <<persist, exit_code, args, browser, conn, batches, idx,
                 success_total, att, ledgerAtStart, ledgerBefore, confirmed,
                 runPages, prevConfirmed, lastMark>>

\* mutant of Eligible: a file counts as uploaded only under the path recorded
Eligible_ByPath(lst, led, t) ==
  SelectSeq(lst, LAMBDA f :
    ~\E k \in 1..Len(led) : led[k].sha256 = sha256_file(t, f) /\ led[k].path = f)

\* the SHA-256 filter of main_async
Eligible(lst, led, t) ==
  SelectSeq(lst, LAMBDA f : ~already_uploaded(led, sha256_file(t, f)))

\* init_db, the filter, and the return when nothing is left
Dedupe ==
  /\ pc = "dedupe"
  /\ \/ /\ args.skip_hashes
        /\ UNCHANGED <<conn, files>>
        /\ IF files = <<>> THEN Exit(0)
           ELSE pc' = "session" /\ UNCHANGED <<exit_code, browser>>
     \/ /\ ~args.skip_hashes
        /\ conn' = TRUE
        /\ files' = Eligible(files, ledger, tree)
        /\ IF files' = <<>> THEN Exit(0)
           ELSE pc' = "session" /\ UNCHANGED <<exit_code, browser>>
     \/ /\ ~args.skip_hashes        \* sqlite3 cannot read uploaded.db
        /\ Abort
        /\ UNCHANGED <<conn, files>>
  /\ UNCHANGED <<persist, args, batches, idx, success_total, att, ledgerAtStart,
                 ledgerBefore, confirmed, runPages, prevConfirmed, lastMark>>

\* storage_state.json, new_context and group_batches
Session ==
  /\ pc = "session"
  /\ IF storage
     THEN /\ batches' = group_batches(files, args.group_by, args.post_size)
          /\ idx' = 1
          /\ pc' = "loop"
          /\ UNCHANGED <<exit_code, browser>>
     ELSE /\ Exit(2)
          /\ UNCHANGED <<batches, idx>>
  /\ UNCHANGED <<persist, args, conn, files, success_total, att, ledgerAtStart,
                 ledgerBefore, confirmed, runPages, prevConfirmed, lastMark>>

\* mutant of BeginAttempt: the loop takes the batches from the last to the first
BeginAttempt_Reversed ==
  /\ pc = "loop"
  /\ idx <= Len(batches)
  /\ att' = [NoAttempt EXCEPT !.apc = "nav", !.images = batches[Len(batches) + 1 - idx],
                               !.page = TRUE]
  /\ runPages' = runPages + 1
  /\ ledgerBefore' = ledger
  /\ pc' = "attempt"
  /\ UNCHANGED <<persist, exit_code, locals, ledgerAtStart, confirmed,
                 prevConfirmed, lastMark>>

\* the next iteration of the loop calls upload_one_post: context.new_page()
BeginAttempt ==
  /\ pc = "loop"
  /\ idx <= Len(batches)
  /\ att' = [NoAttempt EXCEPT !.apc = "nav", !.images = batches[idx], !.page = TRUE]
  /\ runPages' = runPages + 1
  /\ ledgerBefore' = ledger
  /\ pc' = "attempt"
  /\ UNCHANGED <<persist, exit_code, locals, ledgerAtStart, confirmed,
                 prevConfirmed, lastMark>>

\* the loop is over: the session is saved and the browser closed
Finish ==
  /\ pc = "loop"
  /\ idx > Len(batches)
  /\ storage' = TRUE
  /\ Exit(0)
  /\ UNCHANGED <<tree, ledger, clock, args, conn, files, batches, idx,
                 success_total, att, ledgerAtStart, ledgerBefore, confirmed,
                 runPages, prevConfirmed, lastMark>>

\* mutant of LedgerAfter: the batch is recorded whatever upload_one_post returned
LedgerAfter_IgnoresOk(led, ok, hasConn, t, batch, now) ==
  IF hasConn THEN MarkBatch(led, t, batch, now) ELSE led

\* the ledger after main_async has seen the value upload_one_post returned
LedgerAfter(led, ok, hasConn, t, batch, now) ==
  IF ok /\ hasConn THEN MarkBatch(led, t, batch, now) ELSE led

\* if ok: ... mark_uploaded ...; then the pause between posts
HandleResult ==
  /\ pc = "attempt"
  /\ att.result \in {"true", "false"}
  /\ success_total' = IF att.result = "true" THEN success_total + 1 ELSE success_total
  /\ ledger' = LedgerAfter(ledger, att.result = "true", conn, tree, batches[idx], clock)
  /\ idx' = idx + 1
  /\ pc' = "loop"
  /\ UNCHANGED <<tree, storage, clock, exit_code, args, browser, conn, files,
                 batches, att, ledgerAtStart, ledgerBefore, confirmed, runPages,
                 prevConfirmed, lastMark>>

\* an exception of upload_one_post is caught nowhere in main_async
Propagate ==
  /\ pc = "attempt"
  /\ att.result = "raised"
  /\ Abort
  /\ UNCHANGED <<persist, args, conn, files, batches, idx, success_total, att,
                 ledgerAtStart, ledgerBefore, confirmed, runPages, prevConfirmed, lastMark>>

BatchPaths(b) == {b[k] : k \in 1..Len(b)}

\* the run that ended went through its loop and every batch reached Confirmed
FullyConfirmed ==
  /\ pc = "exited"
  /\ exit_code = 0
  /\ ~args.login
  /\ \A k \in 1..Len(batches) : BatchPaths(batches[k]) \subseteq confirmed

\* the program is started again over the same tree and ledger
NextRun ==
  /\ pc \in {"exited", "aborted"}
  /\ clock < MaxRuns
  /\ clock' = clock + 1
  /\ pc' = "start"
  /\ exit_code' = -1
  /\ args' = NoArgs
  /\ conn' = FALSE
  /\ files' = <<>>
  /\ batches' = <<>>
  /\ idx' = 0
  /\ success_total' = 0
  /\ att' = NoAttempt
  /\ ledgerAtStart' = ledger
  /\ ledgerBefore' = ledger
  /\ confirmed' = {}
  /\ runPages' = 0
  /\ prevConfirmed' = (~args.skip_hashes /\ FullyConfirmed)
  /\ UNCHANGED <<tree, ledger, storage, browser, lastMark>>

\* ------------------------------------------------------------ upload_one_post
\* what an attempt step leaves alone
AttemptFrame ==
  UNCHANGED <<persist, pc, exit_code, locals, ledgerAtStart, ledgerBefore,
              runPages, prevConfirmed, lastMark>>

InAttempt(at) == pc = "attempt" /\ att.apc = at

\* an exception leaves upload_one_post: no page.close() is on that path
Raised(a) == [a EXCEPT !.apc = "done", !.result = "raised"]

\* await page.close(); return val
Returned(a, val) ==
  [a EXCEPT !.apc = "done", !.page = FALSE, !.result = IF val THEN "true" ELSE "false"]

\* mutant of AfterNavFailure: the decorator gives up one try later
AfterNavFailure_OneMore(a) ==
  IF a.navTries < NavAttempts
  THEN [a EXCEPT !.navTries = a.navTries + 1]
  ELSE Raised([a EXCEPT !.navTries = a.navTries + 1])

\* the retry decorator after a failed try: again, or RetryError
AfterNavFailure(a) ==
  IF a.navTries + 1 < NavAttempts
  THEN [a EXCEPT !.navTries = a.navTries + 1]
  ELSE Raised([a EXCEPT !.navTries = a.navTries + 1])

\* one try of open_post_editor: goto the editor URL
OpenPostEditor ==
  /\ InAttempt("nav")
  /\ \/ att' = [att EXCEPT !.navTries = 0, !.apc = "title"]
     \/ att' = AfterNavFailure(att)
  /\ UNCHANGED confirmed
  /\ AttemptFrame

\* Title (first attempt)
FillTitle ==
  /\ InAttempt("title")
  /\ \E ok \in BOOLEAN :
       att' = [att EXCEPT !.title_ok = ok, !.titleFills = 1, !.apc = "tags"]
  /\ UNCHANGED confirmed
  /\ AttemptFrame

\* Tags: the tags are typed into the page; an exception is caught and
\* logged, so both ways leave the same locals
AddTags ==
  /\ InAttempt("tags")
  /\ IF args.tags
     THEN att' = [att EXCEPT !.tags = "tried", !.apc = "files"]
     ELSE att' = [att EXCEPT !.apc = "files"]
  /\ UNCHANGED confirmed
  /\ AttemptFrame

\* where the attempt goes once inputs.count() is known
AfterCount(a, n) ==
  IF n = 0
  THEN [a EXCEPT !.count = n, !.apc = "thumb"]   \* RuntimeError, caught and logged
  ELSE [a EXCEPT !.count = n, !.apc = "input"]

\* count = await inputs.count()
CountInputs ==
  /\ InAttempt("files")
  /\ \E n \in 0..MaxInputs : att' = AfterCount(att, n)
  /\ UNCHANGED confirmed
  /\ AttemptFrame

\* mutant of AfterSetInputFiles: no break, the inputs after the one that took
\* the files are given them too
AfterSetInputFiles_NoBreak(a, took) ==
  LET b == IF took THEN [a EXCEPT !.uploaded_ok = TRUE, !.accepted = a.accepted + 1]
           ELSE a
  IN IF a.tried + 1 < a.count
     THEN [b EXCEPT !.tried = a.tried + 1]
     ELSE [b EXCEPT !.count = -1, !.tried = 0, !.refused = ~b.uploaded_ok,
                    !.apc = "thumb"]

\* the loop over the inputs after input number a.tried took or refused the
\* files: break on the first that takes them, the next input otherwise.  count
\* and i are read nowhere after the loop, so they are dropped when it ends;
\* refused tells that the loop ended with every input having refused.
AfterSetInputFiles(a, took) ==
  IF took
  THEN [a EXCEPT !.count = -1, !.tried = 0, !.uploaded_ok = TRUE,
                 !.accepted = a.accepted + 1, !.apc = "thumb"]
  ELSE IF a.tried + 1 < a.count
       THEN [a EXCEPT !.tried = a.tried + 1]
       ELSE [a EXCEPT !.count = -1, !.tried = 0, !.refused = TRUE, !.apc = "thumb"]

\* inputs.nth(i).set_input_files(paths), paths being those of a.images
SetInputFiles ==
  /\ InAttempt("input")
  /\ \E took \in BOOLEAN : att' = AfterSetInputFiles(att, took)
  /\ UNCHANGED confirmed
  /\ AttemptFrame

\* wait_for_selector(thumbnail): a timeout leads to the fallback
WaitThumbnails ==
  /\ InAttempt("thumb")
  /\ \/ att' = [att EXCEPT !.apc = "title2"]
     \/ att' = [att EXCEPT !.apc = "idle"]
  /\ UNCHANGED confirmed
  /\ AttemptFrame

\* the fallback: wait_for_load_state("networkidle") and the settle delay,
\* inside the except clause, so their exceptions are caught nowhere
WaitNetworkIdle ==
  /\ InAttempt("idle")
  /\ \/ att' = [att EXCEPT !.apc = "title2"]
     \/ att' = Raised(att)
  /\ UNCHANGED confirmed
  /\ AttemptFrame

\* mutant of RetryTitle: the title is filled again whatever the first fill gave
RetryTitle_Always ==
  /\ InAttempt("title2")
  /\ \E ok \in BOOLEAN :
       att' = [att EXCEPT !.title_ok = ok, !.titleFills = att.titleFills + 1,
                          !.apc = "pause"]
  /\ UNCHANGED confirmed
  /\ AttemptFrame

\* Retry title after upload if first attempt failed
RetryTitle ==
  /\ InAttempt("title2")
  /\ IF ~att.title_ok
     THEN \E ok \in BOOLEAN :
            att' = [att EXCEPT !.title_ok = ok, !.titleFills = att.titleFills + 1,
                               !.apc = "pause"]
     ELSE att' = [att EXCEPT !.apc = "pause"]
  /\ UNCHANGED confirmed
  /\ AttemptFrame

\* page.wait_for_timeout(delay_ms) before Publish
PrePublishPause ==
  /\ InAttempt("pause")
  /\ \/ att' = [att EXCEPT !.paused = TRUE, !.apc = "publish"]
     \/ att' = Raised(att)
  /\ UNCHANGED confirmed
  /\ AttemptFrame

\* mutant of AfterFirstClick: a click that could not be made leads to the retry
AfterFirstClick_Retries(a, ok_click) ==
  IF ok_click
  THEN [a EXCEPT !.clickTries = a.clickTries + 1, !.clicks = a.clicks + 1,
                 !.apc = "confirm"]
  ELSE [a EXCEPT !.clickTries = a.clickTries + 1, !.apc = "retry"]

\* the attempt after the first click on Publish
AfterFirstClick(a, ok_click) ==
  IF ok_click
  THEN [a EXCEPT !.clickTries = a.clickTries + 1, !.clicks = a.clicks + 1,
                 !.apc = "confirm"]
  ELSE Returned([a EXCEPT !.clickTries = a.clickTries + 1], FALSE)

\* mutant of DryRunReturn: the dry-run test is missing and Publish is clicked
DryRunReturn_Clicks ==
  /\ InAttempt("publish")
  /\ args.dry_run
  /\ att' = AfterFirstClick(att, TRUE)
  /\ UNCHANGED confirmed
  /\ AttemptFrame

\* if dry_run: close the page and return True
DryRunReturn ==
  /\ InAttempt("publish")
  /\ args.dry_run
  /\ att' = Returned(att, TRUE)
  /\ UNCHANGED confirmed
  /\ AttemptFrame

\* ok_click = await click(publish_button)
ClickPublish ==
  /\ InAttempt("publish")
  /\ ~args.dry_run
  /\ \E ok_click \in BOOLEAN : att' = AfterFirstClick(att, ok_click)
  /\ UNCHANGED confirmed
  /\ AttemptFrame

\* mutant of AfterFirstWait: a timeout ends the attempt at once, without the retry
AfterFirstWait_NoRetry(a, matched) ==
  IF matched
  THEN Returned([a EXCEPT !.urlWaits = a.urlWaits + 1, !.firstMatch = "yes",
                           !.success = TRUE], TRUE)
  ELSE Returned([a EXCEPT !.urlWaits = a.urlWaits + 1, !.firstMatch = "no"], FALSE)

\* the attempt after the first wait_for_url
AfterFirstWait(a, matched) ==
  IF matched
  THEN Returned([a EXCEPT !.urlWaits = a.urlWaits + 1, !.firstMatch = "yes",
                           !.success = TRUE], TRUE)
  ELSE [a EXCEPT !.urlWaits = a.urlWaits + 1, !.firstMatch = "no", !.apc = "retry"]

\* wait_for_url(target_regex): a match ends the attempt Confirmed; on a
\* timeout the network-idle wait, whose exceptions are swallowed
WaitForUrl ==
  /\ InAttempt("confirm")
  /\ \E matched \in BOOLEAN :
       /\ att' = AfterFirstWait(att, matched)
       /\ confirmed' = IF matched THEN confirmed \cup BatchPaths(att.images)
                       ELSE confirmed
  /\ AttemptFrame

\* the attempt after the second click on Publish
AfterSecondClick(a, ok_click) ==
  IF ok_click
  THEN [a EXCEPT !.clickTries = a.clickTries + 1, !.clicks = a.clicks + 1,
                 !.apc = "confirm2"]
  ELSE Returned([a EXCEPT !.clickTries = a.clickTries + 1], a.success)

\* if not success: click Publish once more
RetryPublish ==
  /\ InAttempt("retry")
  /\ \E ok_click \in BOOLEAN : att' = AfterSecondClick(att, ok_click)
  /\ UNCHANGED confirmed
  /\ AttemptFrame

\* the attempt after the second wait_for_url: closed, success returned
AfterSecondWait(a, matched) ==
  Returned([a EXCEPT !.urlWaits = a.urlWaits + 1, !.success = matched], matched)

\* the second wait_for_url, whose exception is caught and logged
WaitForUrlAgain ==
  /\ InAttempt("confirm2")
  /\ \E matched \in BOOLEAN :
       /\ att' = AfterSecondWait(att, matched)
       /\ confirmed' = IF matched THEN confirmed \cup BatchPaths(att.images)
                       ELSE confirmed
  /\ AttemptFrame

Attempt ==
  \/ OpenPostEditor
  \/ FillTitle
  \/ AddTags
  \/ CountInputs
  \/ SetInputFiles
  \/ WaitThumbnails
  \/ WaitNetworkIdle
  \/ RetryTitle
  \/ PrePublishPause
  \/ DryRunReturn
  \/ ClickPublish
  \/ WaitForUrl
  \/ RetryPublish
  \/ WaitForUrlAgain

Next ==
  \/ ParseArgs
  \/ DoLogin
  \/ RequireDir
  \/ Discover
  \/ Dedupe
  \/ Session
  \/ BeginAttempt
  \/ Attempt
  \/ HandleResult
  \/ Propagate
  \/ Finish
  \/ NextRun

Spec == Init /\ [][Next]_vars

\* ------------------------------------------------------------ the ledger alone
\* Any sequence of mark_uploaded calls on a fresh ledger, time passing between
\* them.
InitLedger ==
  /\ tree = {}
  /\ ledger = <<>>
  /\ storage = FALSE
  /\ clock = 1
  /\ pc = "start"
  /\ exit_code = -1
  /\ args = NoArgs
  /\ browser = FALSE
  /\ conn = TRUE
  /\ files = <<>>
  /\ batches = <<>>
  /\ idx = 0
  /\ success_total = 0
  /\ att = NoAttempt
  /\ ledgerAtStart = <<>>
  /\ ledgerBefore = <<>>
  /\ confirmed = {}
  /\ runPages = 0
  /\ prevConfirmed = FALSE
  /\ lastMark = NoMark

LedgerFrame ==
  UNCHANGED <<tree, storage, pc, exit_code, locals, att, ledgerAtStart,
              ledgerBefore, confirmed, runPages, prevConfirmed>>

MarkUploaded ==
  /\ \E c \in Contents, p \in ImagePaths :
       /\ ledger' = mark_uploaded(ledger, HexDigest(c), p, clock)
       /\ lastMark' = [digest |-> HexDigest(c), path |-> p, at |-> clock,
                       present |-> already_uploaded(ledger, HexDigest(c))]
  /\ UNCHANGED clock
  /\ LedgerFrame

TimePasses ==
  /\ clock < MaxRuns
  /\ clock' = clock + 1
  /\ UNCHANGED <<ledger, lastMark>>
  /\ LedgerFrame

NextLedger ==
  \/ MarkUploaded
  \/ TimePasses

SpecLedger == InitLedger /\ [][NextLedger]_vars

\* ------------------------------------------------------------ batching alone
\* Discovery, the filter and group_batches over directories of up to
\* MaxDirFiles images: two files in the root, a subdirectory sorted between
\* them, and a second subdirectory after them.
BatchUniverse ==
  {<<1>>, <<3>>} \cup {<<2, k>> : k \in 1..MaxDirFiles} \cup {<<4, 1>>, <<4, 2>>}

BatchTrees ==
  {{[path |-> p, is_file |-> TRUE, suffix |-> ".png", bytes |-> 1] : p \in S}
     \cup {[path |-> <<2>>, is_file |-> FALSE, suffix |-> "", bytes |-> 0],
           [path |-> <<4>>, is_file |-> FALSE, suffix |-> "", bytes |-> 0]} :
   S \in SUBSET BatchUniverse}

InitBatch ==
  /\ tree \in BatchTrees
  /\ ledger = <<>>
  /\ storage = TRUE
  /\ clock = 1
  /\ pc = "discover"
  /\ exit_code = -1
  /\ args \in {a \in ArgSets : ~a.login /\ a.dir = "ok" /\ ~a.dry_run /\ ~a.tags}
  /\ browser = TRUE
  /\ conn = FALSE
  /\ files = <<>>
  /\ batches = <<>>
  /\ idx = 0
  /\ success_total = 0
  /\ att = NoAttempt
  /\ ledgerAtStart = <<>>
  /\ ledgerBefore = <<>>
  /\ confirmed = {}
  /\ runPages = 0
  /\ prevConfirmed = FALSE
  /\ lastMark = NoMark

NextBatch ==
  \/ Discover
  \/ Dedupe
  \/ Session

SpecBatch == InitBatch /\ [][NextBatch]_vars

\* ------------------------------------------------------------ the claims
\* main_async has dealt with the value the last attempt returned
Handled == att.result \in {"true", "false"} /\ pc # "attempt"

\* the rows the current run added to the ledger
AddedRows == (Len(ledgerAtStart) + 1)..Len(ledger)

\* C1: an attempt whose page has no file input never clicks Publish, returns
\* False when it returns, and leaves the ledger as it was.
C1_NoFileInputFails ==
  att.count = 0 =>
    /\ att.clicks = 0
    /\ (att.result \in {"true", "false"} => att.result = "false")
    /\ (Handled => ledger = ledgerBefore)

\* C2: every row the run added to the ledger carries the digest of a file of a
\* batch whose attempt reached Confirmed (Publish clicked, URL matched), dry-run
\* included.
C2_LedgerOnlyConfirmed ==
  \A k \in AddedRows :
    \E f \in confirmed : sha256_file(tree, f) = ledger[k].sha256

\* C3: once an attempt has ended, by return or by exception, its page is closed.
C3_PageClosedOnExit ==
  att.result # "none" => ~att.page

\* C4: a run that formed batches attempts every one of them before it ends,
\* whatever happened to the earlier ones.
C4_FailureNeverStopsRun ==
  pc \in {"exited", "aborted"} => runPages = Len(batches)

\* C5: Publish is clicked at most twice in an attempt; when the first click
\* succeeded and the first URL wait timed out, the attempt ends after exactly one
\* more click, with at most one more URL wait, returning True if that wait
\* matched and False otherwise, and a False leaves the ledger as it was.
C5_OneRetryCycle ==
  /\ att.clicks <= 2
  /\ att.clickTries <= 2
  /\ att.urlWaits <= att.clicks
  /\ (att.firstMatch = "no" /\ att.result # "none") =>
       /\ att.clickTries = 2
       /\ att.result = (IF att.success THEN "true" ELSE "false")
       /\ (att.success => att.clicks = 2 /\ att.urlWaits = 2)
       /\ (Handled /\ ~att.success => ledger = ledgerBefore)

C5_Witness ==
  /\ Handled
  /\ att.firstMatch = "no"
  /\ att.clicks = 2
  /\ att.urlWaits = 2
  /\ att.result = "false"
  /\ conn

\* C6: after main_async has dealt with an attempt that returned False the
\* ledger is what it was when the attempt began, and so it is when the attempt
\* died of an exception; after one that ended Confirmed with dedupe on, the
\* digest of every file of the batch is in the ledger.
C6_LedgerFrame ==
  /\ (Handled /\ att.result = "false" => ledger = ledgerBefore)
  /\ (att.result = "raised" => ledger = ledgerBefore)
  /\ (Handled /\ att.success /\ ~args.skip_hashes =>
        \A f \in BatchPaths(att.images) :
          already_uploaded(ledger, sha256_file(tree, f)))

C6_Witness ==
  /\ Handled
  /\ pc = "loop"
  /\ att.success
  /\ ~args.skip_hashes
  /\ Len(att.images) = 2
  /\ Len(ledger) = Len(ledgerBefore) + 2

\* C7: in dry-run mode no click on Publish is ever tried, an attempt that
\* returns returns True after the pre-publish pause, and an attempt that got
\* through the pause returns True.
C7_DryRunNeverPublishes ==
  args.dry_run =>
    /\ att.clickTries = 0
    /\ att.clicks = 0
    /\ (att.result \in {"true", "false"} => att.result = "true" /\ att.paused)
    /\ (att.apc = "done" /\ att.paused => att.result = "true")

C7_Witness ==
  /\ args.dry_run
  /\ att.result = "true"
  /\ att.paused
  /\ ~att.title_ok
  /\ att.tags = "tried"
  /\ att.refused

\* C8: when the previous run had dedupe on and confirmed every batch, a run
\* with dedupe on over the same tree keeps no file, forms no batch, opens no
\* page and starts no attempt.
C8_SecondRunEmpty ==
  (prevConfirmed /\ ~args.skip_hashes) =>
    /\ (conn => files = <<>>)
    /\ batches = <<>>
    /\ runPages = 0
    /\ att = NoAttempt
    /\ pc \notin {"session", "loop", "attempt"}

C8_Witness ==
  /\ prevConfirmed
  /\ conn
  /\ pc = "exited"
  /\ Len(ledger) >= 2
  /\ files = <<>>

\* C9: with dedupe on, no file whose digest was in the ledger when the run
\* began is kept by the filter, put in a batch, or given to a file input.
C9_LedgerFilesExcluded ==
  ~args.skip_hashes =>
    /\ (conn => \A k \in 1..Len(files) :
                  ~already_uploaded(ledgerAtStart, sha256_file(tree, files[k])))
    /\ \A b \in 1..Len(batches) : \A f \in BatchPaths(batches[b]) :
         ~already_uploaded(ledgerAtStart, sha256_file(tree, f))
    /\ (att.tried > 0 \/ att.uploaded_ok \/ att.refused =>
         \A f \in BatchPaths(att.images) :
         ~already_uploaded(ledgerAtStart, sha256_file(tree, f)))

C9_Witness ==
  /\ ~args.skip_hashes
  /\ conn
  /\ att.uploaded_ok
  /\ \E k \in 1..Len(ledgerAtStart) :
       \E e \in tree : e.is_file /\ HexDigest(e.bytes) = ledgerAtStart[k].sha256

\* C10: the ledger never holds two rows with one digest, no step changes or
\* removes a row, and mark_uploaded with a digest already in the ledger leaves
\* the ledger as it is.
C10_RecordIdempotent ==
  /\ [](\A i, j \in 1..Len(ledger) :
          ledger[i].sha256 = ledger[j].sha256 => i = j)
  /\ [][/\ Len(ledger') >= Len(ledger)
        /\ \A k \in 1..Len(ledger) : ledger'[k] = ledger[k]
        /\ (clock' = clock /\ already_uploaded(ledger, lastMark'.digest)
              => ledger' = ledger)]_vars

C10_Witness ==
  /\ lastMark.present
  /\ \E k \in 1..Len(ledger) :
       /\ ledger[k].sha256 = lastMark.digest
       /\ ledger[k].path # lastMark.path
       /\ ledger[k].posted_at # lastMark.at

\* the files of a list of batches, in order
RECURSIVE Flatten(_)
Flatten(bs) == IF bs = <<>> THEN <<>> ELSE Head(bs) \o Flatten(Tail(bs))

\* the batches made of files of directory d, in order
DirBatches(d) == SelectSeq(batches, LAMBDA b : Parent(b[1]) = d)

\* C11: every batch of group_batches is non-empty and holds at most post_size
\* files; under "folder" all files of a batch have the same parent directory;
\* under "flat" the batches are the consecutive chunks of the whole file list
\* (all full but the last, and concatenated they give the list back).
C11_BatchShape ==
  pc = "loop" =>
    /\ \A b \in 1..Len(batches) :
         Len(batches[b]) >= 1 /\ Len(batches[b]) <= args.post_size
    /\ args.group_by = "folder" =>
         \A b \in 1..Len(batches) : \A i, j \in 1..Len(batches[b]) :
            Parent(batches[b][i]) = Parent(batches[b][j])
    /\ args.group_by = "flat" =>
         /\ Flatten(batches) = files
         /\ \A b \in 1..(Len(batches) - 1) : Len(batches[b]) = args.post_size

\* under "folder" the two root files form one batch although a file of a
\* subdirectory lies between them in the discovered order
C11_Witness ==
  /\ pc = "loop"
  /\ args.group_by = "folder"
  /\ \E b \in 1..Len(batches) : batches[b] = << <<1>>, <<3>> >>
  /\ \E k \in 1..Len(files) : files[k] = <<2, 1>>

\* C12: under "folder" a directory with n files gives ceil(n / post_size)
\* batches, all of post_size files but a last one of n mod post_size when
\* post_size does not divide n, and the batches hold the directory's files in
\* discovered order.
C12_FolderBatchCount ==
  (pc = "loop" /\ args.group_by = "folder") =>
    \A d \in {Parent(files[k]) : k \in 1..Len(files)} :
      LET n == Cardinality({k \in 1..Len(files) : Parent(files[k]) = d})
          m == args.post_size
          B == DirBatches(d)
      IN /\ Len(B) = (n + m - 1) \div m
         /\ \A k \in 1..(Len(B) - 1) : Len(B[k]) = m
         /\ Len(B[Len(B)]) = IF n % m = 0 THEN m ELSE n % m
         /\ Flatten(B) = SelectSeq(files, LAMBDA f : Parent(f) = d)

\* five files of one directory in batches of two: 2, 2, 1
C12_Witness ==
  /\ pc = "loop"
  /\ args.group_by = "folder"
  /\ args.post_size = 2
  /\ Len(DirBatches(<<2>>)) = 3
  /\ Len(DirBatches(<<2>>)[1]) = 2
  /\ Len(DirBatches(<<2>>)[2]) = 2
  /\ Len(DirBatches(<<2>>)[3]) = 1

\* C13: a run without --login that finds no storage_state.json ends with a
\* non-zero exit status, and without having opened a page.
C13_NoSessionFailsFast ==
  (pc \in {"exited", "aborted"} /\ ~args.login /\ ~storage) =>
    (exit_code # 0 /\ runPages = 0)

\* C14: open_post_editor is tried at most 3 times in an attempt; when the
\* third try fails too the attempt is over and has not succeeded: no title
\* fill, no tag entry, no file input counted or tried, no Publish click, and
\* the ledger is as it was when the attempt began.
C14_NavigationBounded ==
  /\ att.navTries <= 3
  /\ att.navTries = 3 =>
       /\ att.apc = "done"
       /\ att.result = "raised"
       /\ att.titleFills = 0
       /\ att.tags = "none"
       /\ att.count = -1 /\ att.tried = 0 /\ ~att.uploaded_ok /\ ~att.refused
       /\ att.clickTries = 0
       /\ att.urlWaits = 0
       /\ ~att.success
       /\ ledger = ledgerBefore

\* three failed tries, seen by main_async, with dedupe on and tags asked for
C14_Witness ==
  /\ att.navTries = 3
  /\ pc = "aborted"
  /\ conn
  /\ args.tags
  /\ ~args.dry_run

\* C15: from the readiness wait on, every step up to the pre-publish pause
\* leads onward: the thumbnail wait, the network-idle fallback and the title
\* retry never end the attempt, whichever way they turn out.
C15_ReadinessNeverFails ==
  [][att.apc \in {"thumb", "idle", "title2"} =>
       att'.apc \in {"idle", "title2", "pause"}]_vars

C17_TitleTwice ==
  /\ [](/\ att.titleFills <= 2
        /\ att.apc \in {"nav", "title"} => att.titleFills = 0
        /\ att.apc \in {"tags", "files", "input", "thumb", "idle", "title2"} =>
             att.titleFills = 1
        /\ att.result = "false" => att.clickTries >= 1)
  /\ [][att.apc = "title2" =>
          /\ att'.apc = "pause"
          /\ att'.titleFills = IF att.title_ok THEN 1 ELSE 2]_vars

\* both fills failed and the post was published all the same
C17_Witness ==
  /\ att.titleFills = 2
  /\ ~att.title_ok
  /\ att.paused
  /\ att.clicks >= 1
  /\ att.result = "true"

\* C18: the file inputs are tried in index order, each with the paths of the
\* whole batch; the loop ends with the first input that takes them, so at most
\* one input takes the files in an attempt.
C18_FirstInputWins ==
  /\ [](/\ att.accepted <= 1
        /\ att.apc = "input" =>
             /\ att.accepted = 0 /\ ~att.uploaded_ok
             /\ 0 <= att.tried /\ att.tried < att.count
             /\ att.images = batches[idx])
  /\ [][att.apc = "input" =>
          \/ att'.apc = "input" /\ att'.tried = att.tried + 1 /\ att'.accepted = 0
          \/ att'.apc = "thumb" /\ att'.accepted = 1 /\ att'.uploaded_ok
          \/ att'.apc = "thumb" /\ att'.accepted = 0 /\ att'.refused
               /\ att.tried + 1 = att.count]_vars

\* the page has several inputs, the first has refused the files and the
\* second is next
C18_Witness ==
  /\ att.apc = "input"
  /\ att.count >= 2
  /\ att.tried = 1
  /\ Len(att.images) >= 1

\* C19: when the first click on Publish cannot be made the attempt is over at
\* once: it returns False with the page closed, after that single try, without
\* any wait_for_url, and the ledger is as it was when the attempt began.
C19_FailedClickEndsAttempt ==
  (att.clickTries >= 1 /\ att.clicks = 0) =>
    /\ att.clickTries = 1
    /\ att.apc = "done"
    /\ att.result = "false"
    /\ ~att.page
    /\ att.urlWaits = 0
    /\ ledger = ledgerBefore

\* main_async has seen the False of an attempt whose only click failed, with
\* dedupe on
C19_Witness ==
  /\ Handled
  /\ att.clickTries = 1
  /\ att.clicks = 0
  /\ att.uploaded_ok
  /\ conn

\* C20: Publish is clicked only in an attempt in which a file input took the
\* files, and an attempt in which every input refused them returns False when
\* it returns.
C20_NoPublishWithoutFiles ==
  /\ att.clicks > 0 => att.uploaded_ok
  /\ (att.refused /\ att.result \in {"true", "false"}) => att.result = "false"

\* the files of the batches given to upload_one_post so far in this run
Attempted == UNION {BatchPaths(batches[b]) : b \in 1..runPages}

\* C21: with dedupe on, no two files given to the attempts of one run have
\* the same digest.
C21_OneFilePerDigest ==
  ~args.skip_hashes =>
    \A f, g \in Attempted :
      sha256_file(tree, f) = sha256_file(tree, g) => f = g

====
